---------------------------- MODULE Spec2Model ----------------------------
(***************************************************************************)
(* rustic_gl: the vertex attribute layout planner (src/attributes.rs) and  *)
(* the one-call program builder (src/raw/shaders.rs).                      *)
(*                                                                         *)
(* A layout type Attribute<T0, Attribute<T1, ... AttributeTail>> is        *)
(* written as the sequence <<T0, T1, ...>>: its head is the outermost      *)
(* node, the empty sequence is AttributeTail.  An element kind T is the    *)
(* record [ty |-> scalar type name, n |-> component count]; a scalar is    *)
(* n = 1 and [t; n] is n in 2..4.                                         *)
(***************************************************************************)
EXTENDS Integers, Sequences, FiniteSets

VARIABLES
    list,           \* the types written in buffer_layout!(...), in order
    pc,             \* "start", "error", "built", "stride", "declare", "done"
    layout,         \* the type the macro expands to
    caller,         \* who runs the stride recursion: "none", "stride", "declare"
    sRest,          \* stride recursion: the node it stands on (Self)
    total,          \* stride recursion: argument total
    max_alignment,  \* stride recursion: argument max_alignment
    strideTrace,    \* history: the padded total at each node the recursion passed
    strideResult,   \* <<v>> once the public stride() returned v, NoStride before
    base,           \* the index given to the public declare
    dRest,          \* declare recursion: the node it stands on (Self)
    index,          \* declare recursion: argument index
    offset,         \* declare recursion: argument offset
    stride,         \* declare recursion: argument stride
    calls,          \* history: the gl calls made, in order
    attributes,     \* the attribute slots of the context (tests' GL_STATE)
    ppc,            \* create_basic_program: position of the call
    vertex_source,  \* create_basic_program: argument
    fragment_source,\* create_basic_program: argument
    vertex_shader,  \* create_basic_program: local
    fragment_shader,\* create_basic_program: local
    result,         \* create_basic_program: the GlResult returned
    shaders,        \* live shader objects of the context
    programs,       \* live program objects of the context
    attached,       \* <<program, shader>> attachments
    created,        \* history: the objects the call in progress created
    ncalls          \* calls of create_basic_program made so far

layoutVars  == <<list, pc, layout, caller, sRest, total, max_alignment,
                 strideTrace, strideResult, base, dRest, index, offset,
                 stride, calls, attributes>>
programVars == <<ppc, vertex_source, fragment_source, vertex_shader,
                 fragment_shader, result, shaders, programs, attached,
                 created, ncalls>>
vars == <<layoutVars, programVars>>

---------------------------------------------------------------------------
(* Bounds of the model. *)

\* longest list drawn from SampleKinds
MaxLen == 3
\* largest index given to declare
MaxBase == 1
\* calls of create_basic_program in one behaviour
MaxCalls == 2

\* attribute slots of the context
MaxVertexAttribs == 16

---------------------------------------------------------------------------
(* Element kinds: impl_ToGlAttrib! and impl_ToNormalizedGlAttrib!. *)

RawTypes == {"i8", "i16", "i32", "u8", "u16", "u32", "f32", "f64", "bool"}

NormalizedTypes == {"Normalized<i8>", "Normalized<i16>", "Normalized<i32>",
                    "Normalized<u8>", "Normalized<u16>", "Normalized<u32>"}

ScalarTypes == RawTypes \cup NormalizedTypes

\* size_of::<$t>(); Normalized<T>(T) has the size of T
SizeOf(ty) ==
    CASE ty \in {"i8", "u8", "bool", "Normalized<i8>", "Normalized<u8>"} -> 1
      [] ty \in {"i16", "u16", "Normalized<i16>", "Normalized<u16>"}     -> 2
      [] ty \in {"i32", "u32", "f32", "Normalized<i32>", "Normalized<u32>"} -> 4
      [] ty = "f64"                                                       -> 8

\* ToGlAttrib::size: [t; n] reports the size of t
Size(T) == SizeOf(T.ty)

\* ToGlAttrib::alignment, the default body; no impl overrides it
Alignment(T) == Size(T)

\* ToGlAttrib::components
Components(T) == T.n

\* ToGlAttrib::normalized: gl::FALSE from impl_ToGlAttrib, gl::TRUE from
\* impl_ToNormalizedGlAttrib
Normalized(T) == T.ty \in NormalizedTypes

\* ToGlAttrib::gl_enum
GlEnum(T) ==
    CASE T.ty \in {"i8", "bool", "Normalized<i8>"} -> "BYTE"
      [] T.ty \in {"i16", "Normalized<i16>"}       -> "SHORT"
      [] T.ty \in {"i32", "Normalized<i32>"}       -> "INT"
      [] T.ty \in {"u8", "Normalized<u8>"}         -> "UNSIGNED_BYTE"
      [] T.ty \in {"u16", "Normalized<u16>"}       -> "UNSIGNED_SHORT"
      [] T.ty \in {"u32", "Normalized<u32>"}       -> "UNSIGNED_INT"
      [] T.ty = "f32"                              -> "FLOAT"
      [] T.ty = "f64"                              -> "DOUBLE"

\* every type with a ToGlAttrib impl: t, [t; 2], [t; 3], [t; 4]
AllKinds == [ty : ScalarTypes, n : 1..4]

Kind(t, c) == [ty |-> t, n |-> c]

---------------------------------------------------------------------------
(* The macros buffer_layout!, reverse_then_call_buffer_layout_inner! and   *)
(* __buffer_layout_inner!, over token sequences.  A matched $t:ty is one   *)
(* token tree; the separating commas are token trees too.                  *)

Comma == [ty |-> ",", n |-> 0]

\* the transcription $($t),* : the types separated by commas
RECURSIVE CommaSeparated(_)
CommaSeparated(types) ==
    IF types = <<>> THEN <<>>
    ELSE IF Len(types) = 1 THEN types
    ELSE <<Head(types), Comma>> \o CommaSeparated(Tail(types))

\* the match $next:ty $(, $remaining:ty)* : the types at the odd positions
TypesOf(tokens) ==
    [k \in 1..((Len(tokens) + 1) \div 2) |-> tokens[2 * k - 1]]

AttributeTail == <<>>

\* the type Attribute<T, A>
Attribute(T, A) == <<T>> \o A

\* a macro call that no rule matches does not compile
CompileError == [ok |-> FALSE, chain |-> <<>>]

RECURSIVE BufferLayoutInnerParsed(_, _)
\* __buffer_layout_inner!, the rules that carry $parsed
BufferLayoutInnerParsed(tokens, parsed) ==
    IF tokens = <<>> THEN [ok |-> TRUE, chain |-> parsed]
    ELSE LET types == TypesOf(tokens)
         IN  BufferLayoutInnerParsed(CommaSeparated(Tail(types)),
                                     Attribute(Head(types), parsed))

\* __buffer_layout_inner!, called with the bracketed list alone
BufferLayoutInner(tokens) ==
    IF tokens = <<>> THEN CompileError
    ELSE LET types == TypesOf(tokens)
         IN  BufferLayoutInnerParsed(CommaSeparated(Tail(types)),
                                     Attribute(Head(types), AttributeTail))

RECURSIVE ReverseThenCall(_, _)
\* reverse_then_call_buffer_layout_inner!
ReverseThenCall(remaining, reversed) ==
    IF remaining = <<>> THEN BufferLayoutInner(reversed)
    ELSE ReverseThenCall(Tail(remaining), <<Head(remaining)>> \o reversed)

\* a builder that nests the list as written
BufferLayoutUnreversed(types) == BufferLayoutInner(CommaSeparated(types))

\* buffer_layout!
BufferLayout(types) == ReverseThenCall(CommaSeparated(types), <<>>)

---------------------------------------------------------------------------
(* The layout arithmetic of impl AttributeTrait. *)

\* padding that rounds down instead of up
PaddingRemainder(T, off) == off % Alignment(T)

\* padding without the outer modulus
PaddingNoWrap(T, off) == Alignment(T) - (off % Alignment(T))

\* Attribute::padding
Padding(T, off) == (Alignment(T) - (off % Alignment(T))) % Alignment(T)

\* AttributeTail::padding
TailPadding(off) == 0

\* the end of the record without the final padding
TailStrideUnpadded(tot, maxal) == tot

\* AttributeTail::stride
TailStride(tot, maxal) == tot + ((maxal - (tot % maxal)) % maxal)

\* one node that counts a single component
StrideNodeOneComponent(T, tot, maxal) ==
    LET padded == tot + Padding(T, tot)
    IN  [padded |-> padded,
         total |-> padded + Size(T),
         max_alignment |-> IF Alignment(T) > maxal THEN Alignment(T) ELSE maxal]

\* one node that pads with its own arithmetic instead of Self::padding
StrideNodeOwnPadding(T, tot, maxal) ==
    LET padded == tot + PaddingNoWrap(T, tot)
    IN  [padded |-> padded,
         total |-> padded + Size(T) * Components(T),
         max_alignment |-> IF Alignment(T) > maxal THEN Alignment(T) ELSE maxal]

\* Attribute::stride (trait method), one node: the padded total and the
\* arguments it passes to A::stride
StrideNode(T, tot, maxal) ==
    LET padded == tot + Padding(T, tot)
    IN  [padded |-> padded,
         total |-> padded + Size(T) * Components(T),
         max_alignment |-> IF Alignment(T) > maxal THEN Alignment(T) ELSE maxal]

RECURSIVE StrideRec(_, _, _)
\* AttributeTrait::stride over a whole chain
StrideRec(chain, tot, maxal) ==
    IF chain = AttributeTail THEN TailStride(tot, maxal)
    ELSE LET r == StrideNode(Head(chain), tot, maxal)
         IN  StrideRec(Tail(chain), r.total, r.max_alignment)

\* a starting max_alignment of the widest scalar
StrideStartWidest(chain) == 8

\* Attribute::stride (public): the max_alignment the recursion starts with
StrideStart(chain) == Alignment(Head(chain))


---------------------------------------------------------------------------
(* The context's attribute slots, as the tests' mock keeps them.  A call   *)
(* on an index the context has no slot for changes no slot.                *)

NoEnum == "0"

\* the tuple (false, 0, 0 as _, gl::FALSE, 0, 0) of GL_STATE
DefaultSlot == [enabled |-> FALSE, size |-> 0, type |-> NoEnum,
                normalized |-> FALSE, stride |-> 0, pointer |-> 0]

Slots == 0..(MaxVertexAttribs - 1)

\* gl::EnableVertexAttribArray (tests' enable_attrib)
EnableVertexAttribArray(attrs, i) ==
    IF i \in DOMAIN attrs THEN [attrs EXCEPT ![i].enabled = TRUE] ELSE attrs

\* gl::VertexAttribPointer (tests' attr_ptr)
VertexAttribPointer(attrs, i, comps, gl_ty, norm, str, ptr) ==
    IF i \in DOMAIN attrs
    THEN [attrs EXCEPT ![i].size = comps, ![i].type = gl_ty,
                       ![i].normalized = norm, ![i].stride = str,
                       ![i].pointer = ptr]
    ELSE attrs

EnableCall(i) ==
    [op |-> "EnableVertexAttribArray", index |-> i, size |-> 0,
     type |-> NoEnum, normalized |-> FALSE, stride |-> 0, pointer |-> 0]

PointerCall(i, comps, gl_ty, norm, str, ptr) ==
    [op |-> "VertexAttribPointer", index |-> i, size |-> comps,
     type |-> gl_ty, normalized |-> norm, stride |-> str, pointer |-> ptr]

\* a node that describes the slot after its own
NodeCallsNextSlot(T, i, off, str) ==
    <<EnableCall(i),
      PointerCall(i + 1, Components(T), GlEnum(T), Normalized(T), str, off)>>

\* Attribute::declare (trait method), the unsafe block: the gl calls of one
\* node, off being the padded offset
NodeCalls(T, i, off, str) ==
    <<EnableCall(i),
      PointerCall(i, Components(T), GlEnum(T), Normalized(T), str, off)>>

RECURSIVE Apply(_, _)
\* the context after a sequence of gl calls
Apply(attrs, cs) ==
    IF cs = <<>> THEN attrs
    ELSE LET c == Head(cs)
         IN  Apply(IF c.op = "EnableVertexAttribArray"
                   THEN EnableVertexAttribArray(attrs, c.index)
                   ELSE VertexAttribPointer(attrs, c.index, c.size, c.type,
                                            c.normalized, c.stride, c.pointer),
                   Tail(cs))

\* Attribute::declare (trait method): the arguments passed to A::declare, off
\* being the padded offset
DeclareRest(T, i, off) ==
    [index |-> i + 1, offset |-> off + Size(T) * Components(T)]

---------------------------------------------------------------------------
(* The layouts checked. *)

\* element kinds the longer lists are drawn from: every scalar size, every
\* component count, raw and normalized
SampleKinds ==
    {Kind("i8", 1), Kind("u8", 3), Kind("i16", 1), Kind("Normalized<i16>", 3),
     Kind("f32", 1), Kind("f32", 2), Kind("f32", 3), Kind("f64", 1),
     Kind("Normalized<u8>", 4)}

SeqsUpTo(S, n) == UNION {[1..k -> S] : k \in 0..n}

\* every list of up to MaxLen sample kinds, the empty list included
SampleLayouts == SeqsUpTo(SampleKinds, MaxLen)

\* every one and two element list of every supported kind
PairLayouts == {<<a>> : a \in AllKinds} \cup (AllKinds \X AllKinds)

\* the layouts of the tests attribute_stride,
\* supports_layouts_with_padding_on_the_end, supports_a_basic_vertex_format
TestStrideLayout == <<Kind("f32", 3), Kind("f32", 1)>>
TestPaddingLayout ==
    <<Kind("f32", 1), Kind("i16", 1), Kind("i8", 1), Kind("i16", 1)>>
TestBasicLayout ==
    <<Kind("f32", 3), Kind("f32", 2), Kind("Normalized<u8>", 4),
      Kind("Normalized<i16>", 3)>>
TestLayouts == {TestStrideLayout, TestPaddingLayout, TestBasicLayout}

\* lists one longer than the context has slots
OverlongLayouts ==
    {[k \in 1..(MaxVertexAttribs + 1) |-> a] :
        a \in {Kind("f32", 3), Kind("Normalized<u8>", 4)}}

Layouts == SampleLayouts \cup PairLayouts \cup TestLayouts \cup OverlongLayouts

\* stride() has not answered yet; an answer v is held as <<v>>
NoStride == <<>>

---------------------------------------------------------------------------
(* The layout planner as a state machine. *)

ProgramIdle ==
    /\ ppc = "idle"
    /\ vertex_source = "none"
    /\ fragment_source = "none"
    /\ vertex_shader = 0
    /\ fragment_shader = 0
    /\ result = [ok |-> FALSE, value |-> 0, err |-> "none"]
    /\ shaders = {}
    /\ programs = {}
    /\ attached = {}
    /\ created = {}
    /\ ncalls = 0

LayoutIdle ==
    /\ pc = "start"
    /\ layout = AttributeTail
    /\ caller = "none"
    /\ sRest = AttributeTail
    /\ total = 0
    /\ max_alignment = 0
    /\ strideTrace = <<>>
    /\ strideResult = NoStride
    /\ base = 0
    /\ dRest = AttributeTail
    /\ index = 0
    /\ offset = 0
    /\ stride = 0
    /\ calls = <<>>
    /\ attributes = [i \in Slots |-> DefaultSlot]

Init ==
    /\ list \in Layouts
    /\ LayoutIdle
    /\ ProgramIdle

\* the type alias `type Vf = buffer_layout!(...)` is compiled
BuildLayout ==
    /\ pc = "start"
    /\ LET r == BufferLayout(list)
       IN  /\ pc' = IF r.ok THEN "built" ELSE "error"
           /\ layout' = r.chain
    /\ UNCHANGED <<list, caller, sRest, total, max_alignment, strideTrace,
                   strideResult, base, dRest, index, offset, stride, calls,
                   attributes>>

\* Attribute::stride (public) enters the trait method
EnterStride(who) ==
    /\ caller' = who
    /\ pc' = "stride"
    /\ sRest' = layout
    /\ total' = 0
    /\ max_alignment' = StrideStart(layout)
    /\ strideTrace' = <<>>

\* the caller asks Vf::stride()
StrideCall ==
    /\ pc = "built"
    /\ EnterStride("stride")
    /\ UNCHANGED <<list, layout, strideResult, base, dRest, index, offset,
                   stride, calls, attributes>>

\* the caller asks Vf::declare(b); its argument Self::stride() runs first
DeclareCall ==
    /\ pc = "built"
    /\ \E b \in 0..MaxBase : base' = b
    /\ EnterStride("declare")
    /\ UNCHANGED <<list, layout, strideResult, dRest, index, offset, stride,
                   calls, attributes>>

\* Attribute::stride (trait method) on one node
StrideStep ==
    /\ pc = "stride"
    /\ sRest # AttributeTail
    /\ LET r == StrideNode(Head(sRest), total, max_alignment)
       IN  /\ total' = r.total
           /\ max_alignment' = r.max_alignment
           /\ strideTrace' = Append(strideTrace, r.padded)
    /\ sRest' = Tail(sRest)
    /\ UNCHANGED <<list, pc, layout, caller, strideResult, base, dRest, index,
                   offset, stride, calls, attributes>>

\* AttributeTail::stride returns to Vf::stride()
StrideReturn ==
    /\ pc = "stride"
    /\ sRest = AttributeTail
    /\ caller = "stride"
    /\ strideResult' = <<TailStride(total, max_alignment)>>
    /\ pc' = "built"
    /\ caller' = "none"
    /\ UNCHANGED <<list, layout, sRest, total, max_alignment, strideTrace,
                   base, dRest, index, offset, stride, calls, attributes>>

\* AttributeTail::stride returns to Vf::declare(b), which enters the trait
\* method with offset 0
DeclareEnter ==
    /\ pc = "stride"
    /\ sRest = AttributeTail
    /\ caller = "declare"
    /\ stride' = TailStride(total, max_alignment)
    /\ index' = base
    /\ offset' = 0
    /\ dRest' = layout
    /\ pc' = "declare"
    /\ UNCHANGED <<list, layout, caller, sRest, total, max_alignment,
                   strideTrace, strideResult, base, calls, attributes>>

\* Attribute::declare (trait method) on one node
DeclareStep ==
    /\ pc = "declare"
    /\ dRest # AttributeTail
    /\ LET T      == Head(dRest)
           padded == offset + Padding(T, offset)
           cs     == NodeCalls(T, index, padded, stride)
           r      == DeclareRest(T, index, padded)
       IN  /\ calls' = calls \o cs
           /\ attributes' = Apply(attributes, cs)
           /\ index' = r.index
           /\ offset' = r.offset
    /\ dRest' = Tail(dRest)
    /\ UNCHANGED <<list, pc, layout, caller, sRest, total, max_alignment,
                   strideTrace, strideResult, base, stride>>

\* AttributeTail::declare
DeclareTail ==
    /\ pc = "declare"
    /\ dRest = AttributeTail
    /\ offset' = offset + TailPadding(offset)
    /\ pc' = "done"
    /\ caller' = "none"
    /\ UNCHANGED <<list, layout, sRest, total, max_alignment, strideTrace,
                   strideResult, base, dRest, index, stride, calls,
                   attributes>>

Next ==
    \/ BuildLayout /\ UNCHANGED programVars
    \/ StrideCall /\ UNCHANGED programVars
    \/ DeclareCall /\ UNCHANGED programVars
    \/ StrideStep /\ UNCHANGED programVars
    \/ StrideReturn /\ UNCHANGED programVars
    \/ DeclareEnter /\ UNCHANGED programVars
    \/ DeclareStep /\ UNCHANGED programVars
    \/ DeclareTail /\ UNCHANGED programVars

Spec == Init /\ [][Next]_vars

---------------------------------------------------------------------------
(* create_basic_program (src/raw/shaders.rs) over the context's shader and *)
(* program objects.  A source either compiles or does not; whether the     *)
(* driver hands out a name, and whether two compiled shaders link, is the  *)
(* driver's choice.                                                        *)

Sources == {"compiles", "does not compile"}

Ok(v) == [ok |-> TRUE, value |-> v, err |-> "none"]
Err(e) == [ok |-> FALSE, value |-> 0, err |-> e]

\* a name the context has not handed out to a live object
FreshName ==
    CHOOSE n \in 1..(Cardinality(shaders \cup programs) + 1) :
        n \notin shaders \cup programs

\* what gl::CreateShader and gl::CreateProgram may return: 0 on failure
DriverNames == {0, FreshName}

\* create_shader: its result, gl_id being what gl::CreateShader returned
CreateShaderResult(source, gl_id) ==
    IF gl_id = 0 THEN Err("ShaderCreation")
    ELSE IF source # "compiles" THEN Err("ShaderCompilation")
    ELSE Ok(gl_id)

\* create_shader: the live shaders after it
CreateShaderObjects(gl_id) ==
    IF gl_id = 0 THEN shaders ELSE shaders \cup {gl_id}

\* create_program
CreateProgramResult(gl_id) ==
    IF gl_id = 0 THEN Err("ProgramCreation") ELSE Ok(gl_id)

\* a context with no shader or program object; the layout side stays idle
InitProgram ==
    /\ list = TestBasicLayout
    /\ LayoutIdle
    /\ ProgramIdle

\* the caller calls create_basic_program(vertex_source, fragment_source)
CallCreateBasicProgram ==
    /\ ppc = "idle"
    /\ ncalls < MaxCalls
    /\ vertex_source' \in Sources
    /\ fragment_source' \in Sources
    /\ vertex_shader' = 0
    /\ fragment_shader' = 0
    /\ created' = {}
    /\ ncalls' = ncalls + 1
    /\ ppc' = "vertex"
    /\ UNCHANGED <<result, shaders, programs, attached>>

\* let vertex_shader = create_shader(gl::VERTEX_SHADER, vertex_source)?
CreateVertexShader ==
    /\ ppc = "vertex"
    /\ \E gl_id \in DriverNames :
         LET r == CreateShaderResult(vertex_source, gl_id)
         IN  /\ shaders' = CreateShaderObjects(gl_id)
             /\ created' = created \cup (shaders' \ shaders)
             /\ IF r.ok
                THEN /\ vertex_shader' = r.value
                     /\ ppc' = "fragment"
                     /\ UNCHANGED result
                ELSE /\ result' = r
                     /\ ppc' = "returned"
                     /\ UNCHANGED vertex_shader
    /\ UNCHANGED <<vertex_source, fragment_source, fragment_shader, programs,
                   attached, ncalls>>

\* let fragment_shader = create_shader(gl::FRAGMENT_SHADER, fragment_source)?
CreateFragmentShader ==
    /\ ppc = "fragment"
    /\ \E gl_id \in DriverNames :
         LET r == CreateShaderResult(fragment_source, gl_id)
         IN  /\ shaders' = CreateShaderObjects(gl_id)
             /\ created' = created \cup (shaders' \ shaders)
             /\ IF r.ok
                THEN /\ fragment_shader' = r.value
                     /\ ppc' = "link"
                     /\ UNCHANGED result
                ELSE /\ result' = r
                     /\ ppc' = "returned"
                     /\ UNCHANGED fragment_shader
    /\ UNCHANGED <<vertex_source, fragment_source, vertex_shader, programs,
                   attached, ncalls>>

\* create_linked_program(&[vertex_shader, fragment_shader], true): the
\* program could not be created
LinkedProgramNotCreated ==
    /\ ppc = "link"
    /\ 0 \in DriverNames
    /\ result' = CreateProgramResult(0)
    /\ ppc' = "returned"
    /\ UNCHANGED <<vertex_source, fragment_source, vertex_shader,
                   fragment_shader, shaders, programs, attached, created,
                   ncalls>>

\* create_linked_program: the shaders are attached and get_link_status
\* returns the error
LinkedProgramNotLinked ==
    /\ ppc = "link"
    /\ LET program == FreshName
       IN  /\ programs' = programs \cup {program}
           /\ created' = created \cup {program}
           /\ attached' = attached \cup {<<program, vertex_shader>>,
                                         <<program, fragment_shader>>}
    /\ result' = Err("ProgramLinkage")
    /\ ppc' = "returned"
    /\ UNCHANGED <<vertex_source, fragment_source, vertex_shader,
                   fragment_shader, shaders, ncalls>>

\* create_linked_program: the program links; each shader is detached and,
\* delete_shaders being true, deleted
LinkedProgramLinked ==
    /\ ppc = "link"
    /\ LET program == FreshName
       IN  /\ programs' = programs \cup {program}
           /\ created' = created \cup {program}
           /\ result' = Ok(program)
    /\ attached' = attached
    /\ shaders' = shaders \ {vertex_shader, fragment_shader}
    /\ ppc' = "returned"
    /\ UNCHANGED <<vertex_source, fragment_source, vertex_shader,
                   fragment_shader, ncalls>>

\* the caller goes on holding the program it was given
CallerKeepsProgram ==
    /\ ppc = "returned"
    /\ ppc' = "idle"
    /\ UNCHANGED <<vertex_source, fragment_source, vertex_shader,
                   fragment_shader, result, shaders, programs, attached,
                   created, ncalls>>

\* the caller deletes the program it was given
CallerDeletesProgram ==
    /\ ppc = "returned"
    /\ result.ok
    /\ programs' = programs \ {result.value}
    /\ ppc' = "idle"
    /\ UNCHANGED <<vertex_source, fragment_source, vertex_shader,
                   fragment_shader, result, shaders, attached, created,
                   ncalls>>

NextProgram ==
    \/ CallCreateBasicProgram /\ UNCHANGED layoutVars
    \/ CreateVertexShader /\ UNCHANGED layoutVars
    \/ CreateFragmentShader /\ UNCHANGED layoutVars
    \/ LinkedProgramNotCreated /\ UNCHANGED layoutVars
    \/ LinkedProgramNotLinked /\ UNCHANGED layoutVars
    \/ LinkedProgramLinked /\ UNCHANGED layoutVars
    \/ CallerKeepsProgram /\ UNCHANGED layoutVars
    \/ CallerDeletesProgram /\ UNCHANGED layoutVars

SpecProgram == InitProgram /\ [][NextProgram]_vars

---------------------------------------------------------------------------
(* What the claims speak of. *)

\* the describe calls made so far, in order
PointerCalls == SelectSeq(calls, LAMBDA c : c.op = "VertexAttribPointer")

\* the bytes of one element's data
Bytes(T) == Size(T) * Components(T)

\* the largest alignment among the elements of a non-empty chain
MaxAlignmentOf(chain) ==
    CHOOSE m \in {Alignment(chain[i]) : i \in 1..Len(chain)} :
        \A i \in 1..Len(chain) : Alignment(chain[i]) <= m

\* the least multiple of m that is at least x
RoundUp(x, m) == ((x + m - 1) \div m) * m

\* the strides the model holds: the last answer of stride(), and the stride
\* handed to the declare recursion
StridesKnown ==
    {strideResult[i] : i \in DOMAIN strideResult}
        \cup (IF pc \in {"declare", "done"} THEN {stride} ELSE {})

\* C1: the byte offset declare passes to the describe call of the element at
\* position i is a multiple of that element's alignment.
C1_OffsetsAligned ==
    \A i \in 1..Len(PointerCalls) :
        PointerCalls[i].pointer % Alignment(layout[i]) = 0

\* [i8, f32] declared: the f32 was moved from byte 1 to byte 4
C1_Witness ==
    /\ pc = "done"
    /\ list = <<Kind("i8", 1), Kind("f32", 1)>>
    /\ PointerCalls[2].pointer = 4

\* C2: stride() of a non-empty chain is a multiple of the largest alignment
\* among its elements, whatever their order.
C2_StrideMultipleOfMaxAlignment ==
    \A v \in StridesKnown : v % MaxAlignmentOf(layout) = 0

\* [f32, i16, i8, i16]: the last element is narrower than the first and the
\* record is padded at its end from 10 to 12
C2_Witness ==
    /\ list = TestPaddingLayout
    /\ pc = "built"
    /\ strideResult = <<12>>
    /\ total = 10

\* C3: offset_i + byte_size_i * component_count_i <= stride() for every
\* element i declared.
C3_ElementsWithinStride ==
    \A i \in 1..Len(PointerCalls) :
        PointerCalls[i].pointer + Bytes(layout[i]) <= stride

\* [3 x f32, f32] declared: the last element ends exactly at the stride
C3_Witness ==
    /\ pc = "done"
    /\ list = TestStrideLayout
    /\ PointerCalls[2].pointer + Bytes(layout[2]) = stride
    /\ stride = 16

\* C4: the k-th directive declare(base) emits targets index base+k (k from
\* 0) and carries the component count, native kind and normalized flag of
\* the k-th type written in buffer_layout!.
C4_DeclareInListOrder ==
    \A k \in 1..Len(PointerCalls) :
        /\ k <= Len(list)
        /\ calls[2 * k - 1].index = base + k - 1
        /\ PointerCalls[k].index = base + k - 1
        /\ PointerCalls[k].size = Components(list[k])
        /\ PointerCalls[k].type = GlEnum(list[k])
        /\ PointerCalls[k].normalized = Normalized(list[k])

\* the four distinct attributes of supports_a_basic_vertex_format declared
\* from index 1
C4_Witness ==
    /\ pc = "done"
    /\ list = TestBasicLayout
    /\ base = 1
    /\ Len(PointerCalls) = 4
    /\ PointerCalls[1].type = "FLOAT"
    /\ PointerCalls[4].type = "SHORT"

\* C5: a layout longer than the context's attribute slots is reported when
\* it is constructed, and declare emits no directive for it.
C5_OverlongLayoutRejected ==
    Len(list) > MaxVertexAttribs =>
        /\ pc \in {"start", "error"}
        /\ calls = <<>>

\* the public stride(): the recursion from total 0 and the first element's
\* alignment
PublicStride(chain) == StrideRec(chain, 0, StrideStart(chain))

\* C6: every directive of declare carries stride(), and the byte offset of
\* the node at position i is the padded total the stride recursion held at
\* that node.
C6_DeclareMatchesStride ==
    \A i \in 1..Len(PointerCalls) :
        /\ PointerCalls[i].stride = PublicStride(layout)
        /\ i <= Len(strideTrace)
        /\ PointerCalls[i].pointer = strideTrace[i]

\* [i8, f64, i8] declared: the f64 at 8 in both recursions, stride 24
C6_Witness ==
    /\ pc = "done"
    /\ list = <<Kind("i8", 1), Kind("f64", 1), Kind("i8", 1)>>
    /\ PointerCalls[2].pointer = 8
    /\ strideTrace = <<0, 8, 16>>
    /\ PointerCalls[3].stride = 24

\* C7: when create_basic_program returns, every shader the call created is
\* deleted and the only object it leaves alive is the program it returned.
C7_OnlyTheProgramSurvives ==
    ppc = "returned" =>
        /\ created \cap shaders = {}
        /\ (created \cap programs) \subseteq
               (IF result.ok THEN {result.value} ELSE {})

\* the padding Attribute::padding gives is the least that aligns
MinimalPadding(T, off) ==
    /\ Padding(T, off) >= 0
    /\ Padding(T, off) < Alignment(T)
    /\ (off + Padding(T, off)) % Alignment(T) = 0

\* C8: 0 <= padding < alignment and offset + padding is aligned, so each
\* element starts at the least multiple of its alignment at or after the end
\* of the element before it (0 for the first), and the terminal marker adds
\* no padding.
C8_PaddingMinimal ==
    /\ (pc = "declare" /\ dRest # AttributeTail)
           => MinimalPadding(Head(dRest), offset)
    /\ (pc = "stride" /\ sRest # AttributeTail)
           => MinimalPadding(Head(sRest), total)
    /\ \A i \in 1..Len(PointerCalls) :
         LET end == IF i = 1 THEN 0
                    ELSE PointerCalls[i - 1].pointer + Bytes(layout[i - 1])
         IN  PointerCalls[i].pointer = RoundUp(end, Alignment(layout[i]))
    /\ (pc = "done" /\ layout # AttributeTail) =>
         /\ TailPadding(offset) = 0
         /\ offset = PointerCalls[Len(layout)].pointer
                         + Bytes(layout[Len(layout)])

\* [u8 x 3, f32, f64] declared: one byte of padding, then none
C8_Witness ==
    /\ pc = "done"
    /\ list = <<Kind("u8", 3), Kind("f32", 1), Kind("f64", 1)>>
    /\ PointerCalls[2].pointer = 4
    /\ PointerCalls[3].pointer = 8
    /\ offset = 16

\* C9: the public stride() equals the recursion started from total 0 and
\* max_alignment 1: the end of the last element rounded up to the chain's
\* largest alignment; 16, 12 and 32 for the three layouts of the tests.
C9_PublicStrideIsSpecStride ==
    \A v \in {strideResult[i] : i \in DOMAIN strideResult} :
        /\ v = StrideRec(layout, 0, 1)
        /\ pc = "built" =>
               v = RoundUp(strideTrace[Len(layout)]
                               + Bytes(layout[Len(layout)]),
                           MaxAlignmentOf(layout))
        /\ list = TestStrideLayout => v = 16
        /\ list = TestPaddingLayout => v = 12
        /\ list = TestBasicLayout => v = 32

\* stride() answered 32 for the layout of supports_a_basic_vertex_format
C9_Witness ==
    /\ list = TestBasicLayout
    /\ pc = "built"
    /\ strideResult = <<32>>

\* C10: declare(base) on n elements makes one enable and then one describe
\* call for each index base .. base+n-1 in turn, none for the terminal
\* marker, and leaves every other slot as it was.
C10_DeclareCallsAndFrame ==
    /\ Len(calls) = 2 * Len(PointerCalls)
    /\ \A k \in 1..Len(PointerCalls) :
         /\ calls[2 * k - 1] = EnableCall(base + k - 1)
         /\ calls[2 * k] = PointerCalls[k]
         /\ PointerCalls[k].index = base + k - 1
    /\ pc = "done" => Len(PointerCalls) = Len(layout)
    /\ \A i \in Slots :
         IF i \in base..(base + Len(PointerCalls) - 1)
         THEN /\ attributes[i].enabled
              /\ attributes[i].size = PointerCalls[i - base + 1].size
              /\ attributes[i].pointer = PointerCalls[i - base + 1].pointer
         ELSE attributes[i] = DefaultSlot

\* three elements declared from index 1: slots 1..3 set, 0 and 4 untouched
C10_Witness ==
    /\ pc = "done"
    /\ base = 1
    /\ Len(list) = 3
    /\ Len(calls) = 6
    /\ attributes[0] = DefaultSlot
    /\ attributes[3].enabled
    /\ attributes[4] = DefaultSlot

=============================================================================
